---- MODULE Spec2Model ----
(***************************************************************************)
(* Model of kmod_db: the alias store built by KmodDB.__init__ from         *)
(* modules.builtin.modinfo and modules.alias, and the queries of KmodDB    *)
(* and KmodEnumerators over it.                                            *)
(*                                                                         *)
(* A Python str is a sequence of one-character strings.  A defaultdict     *)
(* (insertion ordered) is a sequence of entries [module, matchers].        *)
(***************************************************************************)
EXTENDS Integers, Sequences, FiniteSets, TLC

(***************************************************************************)
(* Bounds of the model.                                                    *)
(***************************************************************************)
\* records read during one construction (both load passes together)
MaxLines == 2
\* directory levels of a block device's resolved path, the root included
MaxDepth == 2

(***************************************************************************)
(* Python str operations.                                                  *)
(***************************************************************************)
Whitespace == {" "}

StartsWith(s, p) == Len(p) <= Len(s) /\ SubSeq(s, 1, Len(p)) = p

EndsWith(s, p) == Len(p) <= Len(s) /\ SubSeq(s, Len(s) - Len(p) + 1, Len(s)) = p

RemovePrefix(s, p) == IF StartsWith(s, p) THEN SubSeq(s, Len(p) + 1, Len(s)) ELSE s

RemoveSuffix(s, p) == IF EndsWith(s, p) THEN SubSeq(s, 1, Len(s) - Len(p)) ELSE s

Contains(s, c) == \E i \in 1..Len(s) : s[i] = c

\* str.find: the first index of character c in s, 0 when absent
Find(s, c) == IF Contains(s, c) THEN CHOOSE i \in 1..Len(s) : s[i] = c /\ \A j \in 1..(i - 1) : s[j] # c ELSE 0

\* str.rfind: the last index of character c in s, 0 when absent
RFind(s, c) == IF Contains(s, c) THEN CHOOSE i \in 1..Len(s) : s[i] = c /\ \A j \in (i + 1)..Len(s) : s[j] # c ELSE 0

\* str.strip()
Strip(s) ==
    LET keep == {i \in 1..Len(s) : s[i] \notin Whitespace}
    IN  IF keep = {} THEN <<>>
        ELSE LET lo == CHOOSE i \in keep : \A j \in keep : i <= j
                 hi == CHOOSE i \in keep : \A j \in keep : j <= i
             IN  SubSeq(s, lo, hi)

\* str.split(c, 1): one part when c is absent, else the parts around the first c
Split1(s, c) ==
    IF Find(s, c) = 0 THEN <<s>>
    ELSE <<SubSeq(s, 1, Find(s, c) - 1), SubSeq(s, Find(s, c) + 1, Len(s))>>

\* str.split(c)
RECURSIVE Split(_, _)
Split(s, c) ==
    IF Find(s, c) = 0 THEN <<s>>
    ELSE <<SubSeq(s, 1, Find(s, c) - 1)>> \o Split(SubSeq(s, Find(s, c) + 1, Len(s)), c)

\* str.replace(c, "")
RECURSIVE RemoveChar(_, _)
RemoveChar(s, c) ==
    IF s = <<>> THEN <<>>
    ELSE IF Head(s) = c THEN RemoveChar(Tail(s), c)
    ELSE <<Head(s)>> \o RemoveChar(Tail(s), c)

\* [part for part in parts if part]
RECURSIVE DropEmpty(_)
DropEmpty(parts) ==
    IF parts = <<>> THEN <<>>
    ELSE IF Head(parts) = <<>> THEN DropEmpty(Tail(parts))
    ELSE <<Head(parts)>> \o DropEmpty(Tail(parts))

InSeq(x, seq) == \E i \in 1..Len(seq) : seq[i] = x

(***************************************************************************)
(* fnmatch.fnmatchcase(name, pat): `*` any run, `?` any one character,     *)
(* `[seq]` / `[!seq]` one character in / not in seq (a `]` right after the *)
(* opening is a member; a `[` that is never closed is literal).            *)
(***************************************************************************)
\* the index of the `]` closing the class opened by pat[1] = "[", 0 if none
ClassEnd(pat) ==
    LET j0 == IF Len(pat) >= 2 /\ pat[2] = "!" THEN 3 ELSE 2
        j1 == IF Len(pat) >= j0 /\ pat[j0] = "]" THEN j0 + 1 ELSE j0
        close == {j \in j1..Len(pat) : pat[j] = "]"}
    IN  IF close = {} THEN 0 ELSE CHOOSE j \in close : \A k \in close : j <= k

InClass(ch, stuff) ==
    IF stuff[1] = "!" THEN ~ \E i \in 2..Len(stuff) : stuff[i] = ch
    ELSE \E i \in 1..Len(stuff) : stuff[i] = ch

RECURSIVE fnmatchcase(_, _)
fnmatchcase(name, pat) ==
    IF pat = <<>> THEN name = <<>>
    ELSE IF Head(pat) = "*" THEN
        \/ fnmatchcase(name, Tail(pat))
        \/ name # <<>> /\ fnmatchcase(Tail(name), pat)
    ELSE IF Head(pat) = "?" THEN
        name # <<>> /\ fnmatchcase(Tail(name), Tail(pat))
    ELSE IF Head(pat) = "[" /\ ClassEnd(pat) # 0 THEN
        /\ name # <<>>
        /\ InClass(Head(name), SubSeq(pat, 2, ClassEnd(pat) - 1))
        /\ fnmatchcase(Tail(name), SubSeq(pat, ClassEnd(pat) + 1, Len(pat)))
    ELSE
        name # <<>> /\ Head(name) = Head(pat) /\ fnmatchcase(Tail(name), Tail(pat))

(***************************************************************************)
(* Program constants.                                                      *)
(***************************************************************************)
_BUILTIN_NO_KMOD == << <<"p", "c", "i", "e", "p", "o", "r", "t">> >>

ignored_busses ==
    << <<"a", "u", "x", "i", "l", "i", "a", "r", "y">>,
       <<"c", "x", "l">>,
       <<"d", "a", "x">>,
       <<"d", "f", "l">>,
       <<"d", "s", "a", "_", "t", "a", "g">>,
       <<"e", "i", "s", "a">>,
       <<"h", "d", "a", "u", "d", "i", "o">>,
       <<"h", "i", "d">>,
       <<"i", "d", "x", "d">>,
       <<"i", "e", "e", "e", "1", "3", "9", "4">>,
       <<"i", "n", "p", "u", "t">>,
       <<"i", "p", "_", "s", "e", "t", "_", "b", "i", "t", "m", "a", "p">>,
       <<"i", "p", "_", "s", "e", "t", "_", "h", "a", "s", "h">>,
       <<"i", "p", "_", "s", "e", "t", "_", "l", "i", "s", "t">>,
       <<"i", "s", "h", "t", "p">>,
       <<"l", "e", "d", "t", "r", "i", "g">>,
       <<"m", "d", "i", "o">>,
       <<"m", "e", "i">>,
       <<"n", "d">>,
       <<"p", "c", "m", "c", "i", "a">>,
       <<"s", "d", "i", "o">>,
       <<"s", "d", "w">>,
       <<"s", "e", "r", "i", "o">>,
       <<"s", "s", "b">>,
       <<"t", "b", "s", "v", "c">>,
       <<"t", "y", "p", "e", "c">>,
       <<"p", "n", "p">>,
       <<"v", "f", "i", "o", "_", "p", "c", "i">>,
       <<"w", "m", "i">> >>

plain_busses ==
    << <<"a", "c", "p", "i">>,
       <<"d", "e", "v", "n", "a", "m", "e">>,
       <<"i", "2", "c">>,
       <<"i", "s", "a">>,
       <<"m", "h", "i">>,
       <<"u", "s", "b">>,
       <<"s", "c", "s", "i">>,
       <<"s", "p", "i">>,
       <<"p", "c", "i">>,
       <<"p", "l", "a", "t", "f", "o", "r", "m">>,
       <<"x", "e", "n">> >>

HexStar ==
    {"0", "1", "2", "3", "4", "5", "6", "7", "8", "9", "a", "b", "c", "d", "e", "f",
     "A", "B", "C", "D", "E", "F", "*"}

\* Python None / the empty str where only truthiness is read
None == <<>>

(***************************************************************************)
(* defaultdict(list): a sequence of entries in key insertion order.        *)
(***************************************************************************)
Keys(d) == {d[i].module : i \in 1..Len(d)}

\* d[module].append(x)
DictAppend(d, module, x) ==
    IF module \in Keys(d)
    THEN [i \in 1..Len(d) |->
            IF d[i].module = module
            THEN [d[i] EXCEPT !.matchers = Append(@, x)]
            ELSE d[i]]
    ELSE Append(d, [module |-> module, matchers |-> <<x>>])

(***************************************************************************)
(* The store: KmodDB's attributes after the assignments of __init__.       *)
(***************************************************************************)
EmptyStore ==
    [aliases |-> <<>>,
     bus     |-> [b \in {plain_busses[i] : i \in 1..Len(plain_busses)} |-> <<>>],
     cpu     |-> <<>>,
     dmi     |-> <<>>,
     of      |-> <<>>,
     virtio  |-> <<>>,
     builtin |-> {}]

\* What a call gives back: the store it leaves, the exception it raised ("" if
\* none), the str it returned (None if none) and the set it returned.
Result(st, exc, val, mods) == [st |-> st, exc |-> exc, val |-> val, mods |-> mods]
Done(st) == Result(st, "", None, {})
Raise(st, e) == Result(st, e, None, {})
Return(st, module) == Result(st, "", module, {})
ReturnSet(st, modules) == Result(st, "", None, modules)

(***************************************************************************)
(* KmodDB.get_alias_keys                                                   *)
(***************************************************************************)
\* the dict built by the loop, as a sequence of <<key, value>>; "dup" marks a repeated key
RECURSIVE AliasKeyPairs(_, _)
AliasKeyPairs(parts, keys) ==
    IF parts = <<>> THEN [exc |-> "", keys |-> keys]
    ELSE LET key == Strip(parts[1])
             value == Strip(parts[2])
         IN  IF \E i \in 1..Len(keys) : keys[i][1] = key
             THEN [exc |-> "ValueError", keys |-> keys]
             ELSE AliasKeyPairs(SubSeq(parts, 3, Len(parts)), Append(keys, <<key, value>>))

get_alias_keys(alias_str) ==
    LET parts == Split(alias_str, ":")
    IN  IF Len(parts) % 2 # 0 THEN [exc |-> "ValueError", keys |-> <<>>]
        ELSE AliasKeyPairs(parts, <<>>)

HasKey(keys, k) == \E i \in 1..Len(keys) : keys[i][1] = k
Lookup(keys, k) == keys[CHOOSE i \in 1..Len(keys) : keys[i][1] = k][2]

(***************************************************************************)
(* The per-bus alias processors.                                           *)
(***************************************************************************)
process_simple_alias(st, alias, module, bus) ==
    IF bus # None /\ InSeq(bus, plain_busses)
    THEN Done([st EXCEPT !.bus[bus] = DictAppend(@, module, alias)])
    ELSE Done([st EXCEPT !.aliases = DictAppend(@, module, alias)])

_process_cpu_alias(st, alias, module) ==
    LET cpuinfo == get_alias_keys(alias)
    IN  IF cpuinfo.exc # "" THEN Raise(st, cpuinfo.exc)
        ELSE IF ~ HasKey(cpuinfo.keys, <<"t", "y", "p", "e">>) THEN Raise(st, "KeyError")
        ELSE IF ~ HasKey(cpuinfo.keys, <<"f", "e", "a", "t", "u", "r", "e">>) THEN Raise(st, "KeyError")
        ELSE LET cpu_type == Lookup(cpuinfo.keys, <<"t", "y", "p", "e">>)
                 features == Lookup(cpuinfo.keys, <<"f", "e", "a", "t", "u", "r", "e">>)
             IN  IF cpu_type = <<"*">> /\ features = <<"*">>
                 THEN Done([st EXCEPT !.aliases = DictAppend(@, module, alias)])
                 ELSE IF cpu_type = <<"*">>
                 THEN Done([st EXCEPT !.cpu = DictAppend(@, module,
                            [arch |-> <<"*">>, info |-> <<"*">>, features |-> features])])
                 ELSE IF Len(Split1(cpu_type, ",")) # 2 THEN Raise(st, "ValueError")
                 ELSE Done([st EXCEPT !.cpu = DictAppend(@, module,
                            [arch |-> Split1(cpu_type, ",")[1],
                             info |-> Split1(cpu_type, ",")[2],
                             features |-> features])])

_process_dmi_alias(st, alias, module) ==
    Done([st EXCEPT !.dmi = DictAppend(@, module, DropEmpty(Split(alias, ":")))])

_process_of_alias(st, alias, module) ==
    IF ~ StartsWith(alias, <<"N", "*", "T", "*", "C">>) THEN Done(st)
    ELSE LET a2 == IF EndsWith(alias, <<"C", "*">>) THEN RemoveSuffix(alias, <<"C", "*">>) \o <<"*">> ELSE alias
             matcher == RemovePrefix(a2, <<"N", "*", "T", "*", "C">>)
         IN  Done([st EXCEPT !.of = DictAppend(@, module, matcher)])

\* the end of the longest run of HexStar characters of s that starts at index i (i - 1 if empty)
RunEnd(s, i) ==
    LET stops == {j \in i..Len(s) : s[j] \notin HexStar}
    IN  IF stops = {} THEN Len(s) ELSE (CHOOSE j \in stops : \A k \in stops : j <= k) - 1

\* re.search(r"d(?P<device_id>[0-9a-fA-F\*]+)v(?P<vendor_id>[0-9a-fA-F\*]*)", alias)
_process_virtio_alias(st, alias, module) ==
    LET starts == {i \in 1..Len(alias) :
                     /\ alias[i] = "d"
                     /\ RunEnd(alias, i + 1) >= i + 1
                     /\ RunEnd(alias, i + 1) + 1 <= Len(alias)
                     /\ alias[RunEnd(alias, i + 1) + 1] = "v"}
    IN  IF starts = {} THEN Raise(st, "AttributeError")
        ELSE LET i == CHOOSE k \in starts : \A m \in starts : k <= m
                 e == RunEnd(alias, i + 1)
             IN  Done([st EXCEPT !.virtio = DictAppend(@, module,
                        [device_id |-> SubSeq(alias, i + 1, e),
                         vendor_id |-> SubSeq(alias, e + 2, RunEnd(alias, e + 2))])])

(***************************************************************************)
(* KmodDB.process_alias                                                    *)
(***************************************************************************)
process_alias(st, line) ==
    LET s == Strip(RemovePrefix(line, <<"a", "l", "i", "a", "s", " ">>))
        parts == Split1(s, " ")
    IN  IF Len(parts) # 2 THEN Raise(st, "ValueError")
        ELSE LET alias_str == parts[1]
                 module == parts[2]
                 bp == Split1(alias_str, ":")
             IN  IF Len(bp) # 2
                 THEN Done([st EXCEPT !.aliases = DictAppend(@, module, Strip(alias_str))])
                 ELSE LET bus == bp[1]
                          alias == bp[2]
                          nostar == RemoveChar(bus, "*")
                      IN  IF InSeq(bus, ignored_busses) \/ InSeq(nostar, ignored_busses)
                          THEN Done(st)
                          ELSE IF InSeq(bus, plain_busses) \/ InSeq(nostar, plain_busses)
                          THEN process_simple_alias(st, alias, module, bus)
                          ELSE IF bus \in {<<"a", "c", "p", "i">>, <<"a", "c", "p", "i", "*">>}
                          THEN Raise(st, "AttributeError")
                          ELSE IF bus = <<"c", "p", "u">> THEN _process_cpu_alias(st, alias, module)
                          ELSE IF bus \in {<<"d", "m", "i">>, <<"d", "m", "i", "*">>} THEN _process_dmi_alias(st, alias, module)
                          ELSE IF bus = <<"o", "f">> THEN _process_of_alias(st, alias, module)
                          ELSE IF bus = <<"v", "i", "r", "t", "i", "o">> THEN _process_virtio_alias(st, alias, module)
                          ELSE Done(st)

(***************************************************************************)
(* One record of KmodDB.get_builtin_module_info (the loop body) and one    *)
(* line of KmodDB.get_module_aliases (the loop body).                      *)
(***************************************************************************)
builtin_record(st, raw) ==
    LET line == Strip(raw)
    IN  IF line = <<>> \/ ~ Contains(line, ".") \/ ~ Contains(line, "=") THEN Done(st)
        ELSE LET name == Split1(line, ".")[1]
                 pv == Split1(Split1(line, ".")[2], "=")
             IN  IF Len(pv) # 2 THEN Raise(st, "ValueError")
                 ELSE IF pv[1] # <<"a", "l", "i", "a", "s">> THEN Done(st)
                 ELSE LET r == process_alias(st, Strip(pv[2]) \o <<" ">> \o Strip(name))
                      IN  IF r.exc # "" THEN r
                          ELSE Done([r.st EXCEPT !.builtin = @ \cup {Strip(name)}])

alias_line(st, line) ==
    IF ~ StartsWith(line, <<"a", "l", "i", "a", "s", " ">>) THEN Done(st)
    ELSE process_alias(st, line)

(***************************************************************************)
(* The resolver: KmodDB.resolve_of_alias, resolve_pci_alias and            *)
(* resolve_module_alias.                                                   *)
(***************************************************************************)
AnyMatch(name, matchers) == \E k \in 1..Len(matchers) : fnmatchcase(name, matchers[k])

\* ScanFrom returning the last entry that matches instead of the first
ScanFrom_Last(d, i, name) ==
    IF {j \in i..Len(d) : AnyMatch(name, d[j].matchers)} = {} THEN 0
    ELSE CHOOSE j \in i..Len(d) :
            /\ AnyMatch(name, d[j].matchers)
            /\ \A k \in i..Len(d) : AnyMatch(name, d[k].matchers) => k <= j

\* for module, matchers in d.items(): for matcher in matchers: if fnmatchcase(...): return
\* module -- the index of the entry returned, scanning from entry i; 0 if the loops end
RECURSIVE ScanFrom(_, _, _)
ScanFrom(d, i, name) ==
    IF i > Len(d) THEN 0
    ELSE IF AnyMatch(name, d[i].matchers) THEN i
    ELSE ScanFrom(d, i + 1, name)

\* OfMatch without the retry on the part after the comma
OfMatch_DirectOnly(alias, matcher) == fnmatchcase(alias, matcher)

\* the two tests resolve_of_alias makes of one matcher
OfMatch(alias, matcher) ==
    \/ fnmatchcase(alias, matcher)
    \/ /\ ~ Contains(alias, ",")
       /\ Contains(matcher, ",")
       /\ fnmatchcase(alias, Split(matcher, ",")[Len(Split(matcher, ","))])

RECURSIVE OfScanFrom(_, _, _)
OfScanFrom(d, i, alias) ==
    IF i > Len(d) THEN 0
    ELSE IF \E k \in 1..Len(d[i].matchers) : OfMatch(alias, d[i].matchers[k]) THEN i
    ELSE OfScanFrom(d, i + 1, alias)

\* OfFound looking alias up in the defaultdict (self.of[alias]) before it raises
OfFound_Indexing(st, alias, i) ==
    IF i # 0 THEN Return(st, st.of[i].module)
    ELSE Raise([st EXCEPT !.of = IF alias \in Keys(@) THEN @ ELSE Append(@, [module |-> alias, matchers |-> <<>>])],
               "UnknownAliasError")

\* the end of resolve_of_alias, i being the entry the loops stopped at (0: they ended)
OfFound(st, alias, i) ==
    IF i # 0 THEN Return(st, st.of[i].module) ELSE Raise(st, "UnknownAliasError")

resolve_of_alias(st, alias0) ==
    OfFound(st, Strip(RemovePrefix(alias0, <<"o", "f", ":">>)),
            OfScanFrom(st.of, 1, Strip(RemovePrefix(alias0, <<"o", "f", ":">>))))

\* PciFound raising, as resolve_of_alias does, when nothing matched
PciFound_Raising(st, i) ==
    IF i # 0 THEN Return(st, st.bus[<<"p", "c", "i">>][i].module) ELSE Raise(st, "UnknownAliasError")

\* the end of resolve_pci_alias: the function falls off its end when nothing matched
PciFound(st, i) == IF i # 0 THEN Return(st, st.bus[<<"p", "c", "i">>][i].module) ELSE Return(st, None)

resolve_pci_alias(st, modalias0) ==
    PciFound(st, ScanFrom(st.bus[<<"p", "c", "i">>], 1, Strip(RemovePrefix(modalias0, <<"p", "c", "i", ":">>))))

\* return module, for the entry a scan stopped at
ReturnEntry(st, d, i) == Return(st, d[i].module)

\* the indexes of the plain busses b, in list order, with alias.startswith(b + ":")
PrefixBusses(alias) == {i \in 1..Len(plain_busses) : StartsWith(alias, plain_busses[i] \o <<":">>)}

FirstOf(S) == CHOOSE i \in S : \A j \in S : i <= j

\* lines 147-155: the bus after the loop over plain_busses (the first prefix found wins)
BusOf(alias, bus) ==
    IF PrefixBusses(alias) = {} THEN bus ELSE plain_busses[FirstOf(PrefixBusses(alias))]

\* lines 147-155: the alias after that loop
AliasOf(alias) ==
    IF PrefixBusses(alias) = {} THEN alias
    ELSE Strip(RemovePrefix(alias, plain_busses[FirstOf(PrefixBusses(alias))] \o <<":">>))

\* lines 157-168: the scan of the bus's own map; the entry found, 0 if none or not scanned
BusScan(st, alias, bus) ==
    IF bus # None /\ InSeq(bus, plain_busses) THEN ScanFrom(st.bus[bus], 1, alias) ELSE 0

\* lines 181-185, p being the outcome of the retry with bus="platform"
AfterPlatform(p) ==
    IF p.exc # "" \/ p.val # None THEN p ELSE Raise(p.st, "UnknownAliasError")

RECURSIVE ResolveFrom(_, _, _)

\* lines 178-185, ofr being the outcome of resolve_of_alias
AfterOf(alias, bus, ofr) ==
    IF ofr.exc # "" THEN ofr
    ELSE IF ofr.val # None THEN ofr
    ELSE IF bus # <<"p", "l", "a", "t", "f", "o", "r", "m">> THEN AfterPlatform(ResolveFrom(ofr.st, alias, <<"p", "l", "a", "t", "f", "o", "r", "m">>))
    ELSE Raise(ofr.st, "UnknownAliasError")

\* lines 170-185, g being the entry the scan of self.aliases stopped at
AfterBus(st, alias, bus, g) ==
    IF g # 0 THEN ReturnEntry(st, st.aliases, g)
    ELSE AfterOf(alias, bus, resolve_of_alias(st, alias))

\* AfterPrefix with the generic scan made before the bus's own map is used
AfterPrefix_GenericFirst(st, alias, bus, b) ==
    IF ScanFrom(st.aliases, 1, alias) # 0 THEN ReturnEntry(st, st.aliases, ScanFrom(st.aliases, 1, alias))
    ELSE IF b # 0 THEN ReturnEntry(st, st.bus[bus], b)
    ELSE AfterOf(alias, bus, resolve_of_alias(st, alias))

\* lines 157-185, b being the entry the scan of the bus's map stopped at
AfterPrefix(st, alias, bus, b) ==
    IF b # 0 THEN ReturnEntry(st, st.bus[bus], b)
    ELSE AfterBus(st, alias, bus, ScanFrom(st.aliases, 1, alias))

\* resolve_module_alias, its arguments named alias0 and bus0
ResolveFrom(st, alias0, bus0) ==
    AfterPrefix(st, AliasOf(alias0), BusOf(alias0, bus0),
                BusScan(st, AliasOf(alias0), BusOf(alias0, bus0)))

resolve_module_alias(st, alias, bus) == ResolveFrom(st, alias, bus)

(***************************************************************************)
(* KmodEnumerators: detect_acpi_kmods, detect_pci_kmods, detect_dmi_kmods. *)
(***************************************************************************)
\* the cross product scan of detect_acpi_kmods / detect_pci_kmods over one bus map
DetectScan(d, modaliases) ==
    {d[i].module : i \in {j \in 1..Len(d) :
        \E k \in 1..Len(d[j].matchers) : \E m \in modaliases : fnmatchcase(m, d[j].matchers[k])}}

\* exists: the devices directory exists; texts: the modalias files' contents
detect_acpi_kmods(st, exists, texts) ==
    IF ~ exists THEN Raise(st, "FileNotFoundError")
    ELSE ReturnSet(st, DetectScan(st.bus[<<"a", "c", "p", "i">>], {RemovePrefix(Strip(t), <<"a", "c", "p", "i", ":">>) : t \in texts}))

detect_pci_kmods(st, exists, texts) ==
    IF ~ exists THEN Raise(st, "FileNotFoundError")
    ELSE ReturnSet(st, DetectScan(st.bus[<<"p", "c", "i">>], {RemovePrefix(Strip(t), <<"p", "c", "i", ":">>) : t \in texts}))

\* the inner loop over one matcher: "match" (the else of the for), "break", or "IndexError"
RECURSIVE DmiMatcher(_, _, _)
DmiMatcher(matcher, dmi_parts, n) ==
    IF n > Len(matcher) THEN "match"
    ELSE IF matcher[n] = <<"*">> /\ n > Len(dmi_parts) THEN "break"
    ELSE IF n > Len(dmi_parts) THEN "IndexError"
    ELSE IF ~ fnmatchcase(dmi_parts[n], matcher[n]) THEN "break"
    ELSE DmiMatcher(matcher, dmi_parts, n + 1)

\* the loop over one module's matchers from matcher k: "match", "none" or "IndexError"
RECURSIVE DmiModule(_, _, _)

DmiNext(matchers, dmi_parts, k, outcome) ==
    IF outcome = "break" THEN DmiModule(matchers, dmi_parts, k + 1) ELSE outcome

DmiModule(matchers, dmi_parts, k) ==
    IF k > Len(matchers) THEN "none"
    ELSE DmiNext(matchers, dmi_parts, k, DmiMatcher(matchers[k], dmi_parts, 1))

\* the loop over the modules from entry i, with the set accumulated so far
RECURSIVE DmiScan(_, _, _, _)

DmiStep(st, dmi_parts, i, acc, outcome) ==
    IF outcome = "IndexError" THEN Raise(st, "IndexError")
    ELSE IF outcome = "match" THEN DmiScan(st, dmi_parts, i + 1, acc \cup {st.dmi[i].module})
    ELSE DmiScan(st, dmi_parts, i + 1, acc)

DmiScan(st, dmi_parts, i, acc) ==
    IF i > Len(st.dmi) THEN ReturnSet(st, acc)
    ELSE DmiStep(st, dmi_parts, i, acc, DmiModule(st.dmi[i].matchers, dmi_parts, 1))

\* dmi_str: the argument (None if not given); hasFile, fileText: /sys/class/dmi/id/modalias
detect_dmi_kmods(st, dmi_str, hasFile, fileText) ==
    IF dmi_str = None /\ ~ hasFile THEN Raise(st, "FileNotFoundError")
    ELSE DmiScan(st,
                 DropEmpty(Split(Strip(RemovePrefix(IF dmi_str = None THEN Strip(fileText) ELSE dmi_str,
                                                    <<"d", "m", "i", ":">>)), ":")),
                 1, {})

(***************************************************************************)
(* KmodEnumerators.get_blkdev_kmods: one iteration of the while loop, at   *)
(* a directory lvl = [hasDriver, driver, hasModule, module, hasModalias,   *)
(* modalias] (driver: the name of the driver symlink's target; module: the *)
(* name of the target of the driver's module symlink).                     *)
(***************************************************************************)
\* DriverPart testing self.builtin only, not _BUILTIN_NO_KMOD
DriverPart_BuiltinOnly(st, lvl) ==
    IF lvl.hasDriver /\ ~ (lvl.driver \in st.builtin) /\ lvl.hasModule THEN {lvl.module} ELSE {}

\* the modules added by the driver-symlink part of the iteration
DriverPart(st, lvl) ==
    IF lvl.hasDriver
       /\ ~ (lvl.driver \in st.builtin \/ InSeq(lvl.driver, _BUILTIN_NO_KMOD))
       /\ lvl.hasModule
    THEN {lvl.module}
    ELSE {}

\* lines 135-141: the except clause's probe of the driver name, r2 being its outcome
AfterProbe(r2) ==
    IF r2.exc = "" THEN ReturnSet(r2.st, {r2.val})
    ELSE IF r2.exc # "UnknownAliasError" THEN r2
    ELSE ReturnSet(r2.st, {})

\* resolve_module_alias(driver_name): driver_name is None when there is no driver symlink
ProbeDriver(st, lvl) ==
    IF ~ lvl.hasDriver THEN Raise(st, "AttributeError")
    ELSE resolve_module_alias(st, lvl.driver, None)

\* lines 122-141, r being the outcome of resolve_module_alias(modalias_text)
AfterModalias(lvl, r) ==
    IF r.exc = "" THEN ReturnSet(r.st, {r.val})
    ELSE IF r.exc # "UnknownAliasError" THEN r
    ELSE IF lvl.hasDriver /\ lvl.driver \in r.st.builtin THEN ReturnSet(r.st, {})
    ELSE IF lvl.hasDriver /\ InSeq(lvl.driver, _BUILTIN_NO_KMOD) THEN ReturnSet(r.st, {})
    ELSE AfterProbe(ProbeDriver(r.st, lvl))

\* the modalias part of the iteration: the modules it adds, or the exception that escapes
ModaliasPart(st, lvl) ==
    IF ~ lvl.hasModalias THEN ReturnSet(st, {})
    ELSE AfterModalias(lvl, resolve_module_alias(st, Strip(lvl.modalias), None))

(***************************************************************************)
(* State.                                                                  *)
(*   db     the store (KmodDB's attributes)                                *)
(*   phase  where __init__ is: "builtin" (in get_builtin_module_info),     *)
(*          "alias" (in get_module_aliases), "ready" (constructed),        *)
(*          "failed" (an exception left __init__)                          *)
(*   nread  records and lines read so far                                  *)
(*   last   the last call made: its name, its arguments and (once it has   *)
(*          ended) its outcome                                             *)
(*   walk   the loop of the last call if that is get_blkdev_kmods: whether *)
(*          it is running, the levels visited, the set accumulated, the    *)
(*          level of the last iteration and what its two parts added       *)
(***************************************************************************)
VARIABLES db, phase, nread, last, walk

vars == <<db, phase, nread, last, walk>>

NoLevel ==
    [hasDriver |-> FALSE, driver |-> None, hasModule |-> FALSE, module |-> None,
     hasModalias |-> FALSE, modalias |-> None]

Idle ==
    [active |-> FALSE, depth |-> 0, modules |-> {}, level |-> NoLevel,
     driverAdded |-> {}, modaliasAdded |-> {}]

Call(op, alias, bus, texts, r) ==
    [op |-> op, alias |-> alias, bus |-> bus, texts |-> texts,
     exc |-> r.exc, val |-> r.val, mods |-> r.mods]

Init ==
    /\ db = EmptyStore
    /\ phase = "builtin"
    /\ nread = 0
    /\ last = Call("init", None, None, {}, Done(EmptyStore))
    /\ walk = Idle

(***************************************************************************)
(* Construction: KmodDB.__init__ reads the two files record by record.     *)
(***************************************************************************)
\* a record or line was read, with outcome r: an exception leaves __init__
Loaded(op, raw, r) ==
    /\ db' = r.st
    /\ phase' = IF r.exc # "" THEN "failed" ELSE phase
    /\ last' = Call(op, raw, None, {}, r)
    /\ nread' = nread + 1
    /\ UNCHANGED walk

ReadBuiltinRecord(raw) ==
    /\ phase = "builtin"
    /\ nread < MaxLines
    /\ Loaded("get_builtin_module_info", raw, builtin_record(db, raw))

EndBuiltin ==
    /\ phase = "builtin"
    /\ phase' = "alias"
    /\ UNCHANGED <<db, nread, last, walk>>

ReadAliasLine(line) ==
    /\ phase = "alias"
    /\ nread < MaxLines
    /\ Loaded("get_module_aliases", line, alias_line(db, line))

EndAlias ==
    /\ phase = "alias"
    /\ phase' = "ready"
    /\ UNCHANGED <<db, nread, last, walk>>

(***************************************************************************)
(* Queries on the constructed store.                                       *)
(***************************************************************************)
CanQuery == phase = "ready" /\ ~ walk.active

Query(op, alias, bus, texts, r) ==
    /\ CanQuery
    /\ db' = r.st
    /\ last' = Call(op, alias, bus, texts, r)
    /\ walk' = Idle
    /\ UNCHANGED <<phase, nread>>

Resolve(alias, bus) ==
    Query("resolve_module_alias", alias, bus, {}, resolve_module_alias(db, alias, bus))

ResolveOf(alias) ==
    Query("resolve_of_alias", alias, None, {}, resolve_of_alias(db, alias))

ResolvePci(modalias) ==
    Query("resolve_pci_alias", modalias, None, {}, resolve_pci_alias(db, modalias))

DetectAcpi(exists, texts) ==
    Query("detect_acpi_kmods", None, None, texts, detect_acpi_kmods(db, exists, texts))

DetectPci(exists, texts) ==
    Query("detect_pci_kmods", None, None, texts, detect_pci_kmods(db, exists, texts))

\* given: the dmi_str argument; fileText: the sysfs file read when none is given
DetectDmi(given, hasFile, fileText) ==
    Query("detect_dmi_kmods", IF given = None /\ hasFile THEN fileText ELSE given, None, {},
          detect_dmi_kmods(db, given, hasFile, fileText))

\* get_blkdev_kmods up to the loop: the device is missing, or the walk starts
BlkdevStart(exists) ==
    /\ CanQuery
    /\ IF exists
       THEN /\ walk' = [Idle EXCEPT !.active = TRUE]
            /\ last' = Call("get_blkdev_kmods", None, None, {}, Done(db))
       ELSE /\ walk' = Idle
            /\ last' = Call("get_blkdev_kmods", None, None, {}, Raise(db, "FileNotFoundError"))
    /\ UNCHANGED <<db, phase, nread>>

\* the end of one iteration: d, m are what its two parts gave
LevelDone(lvl, isRoot, d, m) ==
    /\ db' = m.st
    /\ walk' = [active |-> m.exc = "" /\ ~ isRoot,
                depth |-> walk.depth + 1,
                modules |-> walk.modules \cup d \cup m.mods,
                level |-> lvl,
                driverAdded |-> d,
                modaliasAdded |-> m.mods]
    /\ last' = IF m.exc # "" THEN Call("get_blkdev_kmods", None, None, {}, m)
               ELSE IF isRoot
               THEN Call("get_blkdev_kmods", None, None, {},
                         ReturnSet(m.st, walk.modules \cup d \cup m.mods))
               ELSE last
    /\ UNCHANGED <<phase, nread>>

\* one iteration at a directory holding lvl; isRoot: its parent is itself (the loop
\* breaks and the set is returned)
BlkdevLevel(lvl, isRoot) ==
    /\ phase = "ready"
    /\ walk.active
    /\ walk.depth < MaxDepth
    /\ isRoot \/ walk.depth + 1 < MaxDepth
    /\ LevelDone(lvl, isRoot, DriverPart(db, lvl), ModaliasPart(db, lvl))

(***************************************************************************)
(* Inputs.  Module names are m1..m5; bd is a module met in the builtin     *)
(* file, nv a driver that is not builtin.                                  *)
(***************************************************************************)
m1 == <<"m", "1">>
m2 == <<"m", "2">>
m3 == <<"m", "3">>
m4 == <<"m", "4">>
m5 == <<"m", "5">>
bd == <<"b", "d">>
nv == <<"n", "v">>

\* records of modules.builtin.modinfo and lines of modules.alias: one of each kind
BaseRecords ==
    { <<"b", "d", ".", "a", "l", "i", "a", "s", "=", "u", "s", "b", ":", "z", "z">>,
      <<"b", "d", ".", "l", "i", "c", "e", "n", "s", "e", "=", "G", "P", "L">> }

BaseLines ==
    { <<"a", "l", "i", "a", "s", " ", "a", "b", " ", "m", "1">>,
      <<"a", "l", "i", "a", "s", " ", "u", "s", "b", ":", "a", "*", " ", "m", "2">>,
      <<"a", "l", "i", "a", "s", " ", "p", "c", "i", ":", "a", "b", " ", "m", "3">>,
      <<"a", "l", "i", "a", "s", " ", "a", "c", "p", "i", ":", "a", "b", " ", "m", "4">>,
      <<"a", "l", "i", "a", "s", " ", "d", "m", "i", ":", "a", ":", "*", ":", "b", " ", "m", "1">>,
      <<"a", "l", "i", "a", "s", " ", "o", "f", ":", "N", "*", "T", "*", "C", "v", ",", "a", "b", " ", "m", "5">>,
      <<"a", "l", "i", "a", "s", " ", "c", "p", "u", ":", "t", "y", "p", "e", ":", "x", ",", "y", ":", "f", "e", "a", "t", "u", "r", "e", ":", "*", " ", "m", "2">>,
      <<"#", " ", "c", "o", "m", "m", "e", "n", "t">> }

BaseAliases == { <<"a", "b">>, <<"u", "s", "b", ":", "a", "b">>, <<"z", "z">> }
BaseHints == { None, <<"u", "s", "b">> }
BaseTexts == { <<"a", "c", "p", "i", ":", "a", "b">>, <<"p", "c", "i", ":", "a", "b">> }
BaseDmi == { None, <<"d", "m", "i", ":", "a", ":", "x", ":", "b">>, <<"d", "m", "i", ":", "a">> }

BaseLevels ==
    { [hasDriver |-> FALSE, driver |-> None, hasModule |-> FALSE, module |-> None,
       hasModalias |-> FALSE, modalias |-> None],
      [hasDriver |-> FALSE, driver |-> None, hasModule |-> FALSE, module |-> None,
       hasModalias |-> TRUE, modalias |-> <<"q", "q">>],
      [hasDriver |-> TRUE, driver |-> nv, hasModule |-> TRUE, module |-> m3,
       hasModalias |-> TRUE, modalias |-> <<"u", "s", "b", ":", "a", "b">>],
      [hasDriver |-> TRUE, driver |-> <<"p", "c", "i", "e", "p", "o", "r", "t">>, hasModule |-> TRUE, module |-> m4,
       hasModalias |-> TRUE, modalias |-> <<"a", "b">>] }

(***************************************************************************)
(* The program: construction, then any queries.                            *)
(***************************************************************************)
Next ==
    \/ \E raw \in BaseRecords : ReadBuiltinRecord(raw)
    \/ EndBuiltin
    \/ \E line \in BaseLines : ReadAliasLine(line)
    \/ EndAlias
    \/ \E alias \in BaseAliases, bus \in BaseHints : Resolve(alias, bus)
    \/ \E alias \in BaseAliases : ResolveOf(alias)
    \/ \E alias \in BaseAliases : ResolvePci(alias)
    \/ \E exists \in BOOLEAN, texts \in SUBSET BaseTexts : DetectAcpi(exists, texts)
    \/ \E exists \in BOOLEAN, texts \in SUBSET BaseTexts : DetectPci(exists, texts)
    \/ \E given \in BaseDmi, hasFile \in BOOLEAN : DetectDmi(given, hasFile, <<"d", "m", "i", ":", "a", ":", "x", ":", "b">>)
    \/ \E exists \in BOOLEAN : BlkdevStart(exists)
    \/ \E lvl \in BaseLevels, isRoot \in BOOLEAN : BlkdevLevel(lvl, isRoot)

Spec == Init /\ [][Next]_vars

(***************************************************************************)
(* The resolver on its own: stores with several modules per map, and       *)
(* aliases with and without bus prefixes and hints.                        *)
(***************************************************************************)
ResolveLines ==
    { <<"a", "l", "i", "a", "s", " ", "a", "b", " ", "m", "1">>,
      <<"a", "l", "i", "a", "s", " ", "a", "?", " ", "m", "2">>,
      <<"a", "l", "i", "a", "s", " ", "a", "b", " ", "m", "3">>,
      <<"a", "l", "i", "a", "s", " ", "u", "s", "b", ":", "a", "*", " ", "m", "2">>,
      <<"a", "l", "i", "a", "s", " ", "u", "s", "b", ":", "a", "b", " ", "m", "1">>,
      <<"a", "l", "i", "a", "s", " ", "p", "l", "a", "t", "f", "o", "r", "m", ":", "a", "b", " ", "m", "3">>,
      <<"a", "l", "i", "a", "s", " ", "p", "c", "i", ":", "a", "*", " ", "m", "4">>,
      <<"a", "l", "i", "a", "s", " ", "p", "c", "i", ":", "a", "b", " ", "m", "3">>,
      <<"a", "l", "i", "a", "s", " ", "o", "f", ":", "N", "*", "T", "*", "C", "v", ",", "a", "b", " ", "m", "4">>,
      <<"a", "l", "i", "a", "s", " ", "o", "f", ":", "N", "*", "T", "*", "C", "a", "b", " ", "m", "5">>,
      <<"a", "l", "i", "a", "s", " ", "u", "s", "b", "*", ":", "p", "c", "i", ":", "a", "b", " ", "m", "5">> }

ResolveAliases == { <<"a", "b">>, <<"u", "s", "b", ":", "a", "b">>, <<"o", "f", ":", "a", "b">>, <<"p", "c", "i", ":", "a", "b">>, <<"v", ",", "a", "b">>, <<" ", "a", "b">>, <<"z", "z">> }

ResolveHints == { None, <<"u", "s", "b">>, <<"p", "l", "a", "t", "f", "o", "r", "m">>, <<"c", "p", "u">> }

NextResolve ==
    \/ EndBuiltin
    \/ \E line \in ResolveLines : ReadAliasLine(line)
    \/ EndAlias
    \/ \E alias \in ResolveAliases, bus \in ResolveHints : Resolve(alias, bus)
    \/ \E alias \in ResolveAliases : ResolveOf(alias)
    \/ \E alias \in ResolveAliases : ResolvePci(alias)

SpecResolve == Init /\ [][NextResolve]_vars

(***************************************************************************)
(* Vocabulary of the properties.                                           *)
(***************************************************************************)
PlainBusSet == {plain_busses[i] : i \in 1..Len(plain_busses)}

\* the entries of map d that hold a record glob-matching name
Matching(d, name) == {i \in 1..Len(d) : \E k \in 1..Len(d[i].matchers) : fnmatchcase(name, d[i].matchers[k])}

\* the module inserted first among the entries S of map d
FirstModule(d, S) == d[CHOOSE i \in S : \A j \in S : i <= j].module

\* the plain bus named by a `<bus>:` prefix of the alias, if any
HasBusPrefix(alias) == \E b \in PlainBusSet : StartsWith(alias, b \o <<":">>)
PrefixOf(alias) == CHOOSE b \in PlainBusSet : StartsWith(alias, b \o <<":">>)

\* the bus a resolution is made on, and the alias text that remains
EffectiveBus(alias, hint) == IF HasBusPrefix(alias) THEN PrefixOf(alias) ELSE hint
Remaining(alias) ==
    IF HasBusPrefix(alias)
    THEN Strip(SubSeq(alias, Len(PrefixOf(alias)) + 2, Len(alias)))
    ELSE alias

\* an Open-Firmware query without its optional `of:` prefix
OfQuery(alias) == Strip(IF StartsWith(alias, <<"o", "f", ":">>) THEN SubSeq(alias, 4, Len(alias)) ELSE alias)

\* a record qualifies for an Open-Firmware query: directly, or by the part after its last comma
OfQualifies(q, pattern) ==
    \/ fnmatchcase(q, pattern)
    \/ /\ ~ Contains(q, ",")
       /\ Contains(pattern, ",")
       /\ fnmatchcase(q, SubSeq(pattern, RFind(pattern, ",") + 1, Len(pattern)))

OfQualifying(d, q) == {i \in 1..Len(d) : \E k \in 1..Len(d[i].matchers) : OfQualifies(q, d[i].matchers[k])}

NoMeta(pattern) == \A i \in 1..Len(pattern) : pattern[i] \notin {"*", "?", "["}

Resolved == phase = "ready" /\ last.op = "resolve_module_alias"

(***************************************************************************)
(* C1.  Platform fallback: an alias queried with a bus hint other than     *)
(* "platform" (or none), without plain-bus prefix, that matches nothing in *)
(* the hinted bus map, the generic map and the Of map but matches a record *)
(* in the platform map resolves to the first such module of the platform   *)
(* map.  The code raises UnknownAliasError out of resolve_of_alias before  *)
(* the retry, so this fails.                                               *)
(***************************************************************************)
C1_Case ==
    /\ Resolved
    /\ last.bus # <<"p", "l", "a", "t", "f", "o", "r", "m">>
    /\ ~ HasBusPrefix(last.alias)
    /\ last.bus \in PlainBusSet => Matching(db.bus[last.bus], last.alias) = {}
    /\ Matching(db.aliases, last.alias) = {}
    /\ OfQualifying(db.of, OfQuery(last.alias)) = {}
    /\ Matching(db.bus[<<"p", "l", "a", "t", "f", "o", "r", "m">>], last.alias) # {}

\* C1: in that case resolve returns the first matching module of the platform map
C1_PlatformFallback ==
    C1_Case =>
        /\ last.exc = ""
        /\ last.val = FirstModule(db.bus[<<"p", "l", "a", "t", "f", "o", "r", "m">>], Matching(db.bus[<<"p", "l", "a", "t", "f", "o", "r", "m">>], last.alias))

(***************************************************************************)
(* C5.  Bus-hinted resolution: when the bus of a resolution (the prefix of *)
(* the alias, else the hint) is a plain bus whose map holds a record       *)
(* matching the remaining alias text, resolve returns the module inserted  *)
(* first among the modules of that map with such a record, whatever the    *)
(* generic, Of and platform maps hold.                                     *)
(***************************************************************************)
C5_Case ==
    /\ Resolved
    /\ EffectiveBus(last.alias, last.bus) \in PlainBusSet
    /\ Matching(db.bus[EffectiveBus(last.alias, last.bus)], Remaining(last.alias)) # {}

\* C5: in that case resolve returns the first matching module of the bus's own map
C5_BusFirst ==
    C5_Case =>
        /\ last.exc = ""
        /\ last.val = FirstModule(db.bus[EffectiveBus(last.alias, last.bus)],
                                  Matching(db.bus[EffectiveBus(last.alias, last.bus)],
                                           Remaining(last.alias)))

\* the case is met while the generic map holds a match too, of another module
C5_Witness ==
    /\ C5_Case
    /\ Matching(db.aliases, Remaining(last.alias)) # {}
    /\ last.val # FirstModule(db.aliases, Matching(db.aliases, Remaining(last.alias)))

(***************************************************************************)
(* C6 as stated.  Fixed point: every pattern P without glob metacharacter  *)
(* stored for a module M in the generic map, resolved verbatim (no bus     *)
(* hint), returns M.  It fails when an earlier module holds a record that  *)
(* matches P too.                                                          *)
(***************************************************************************)
StoredFor(d, pattern) == {i \in 1..Len(d) : \E k \in 1..Len(d[i].matchers) : d[i].matchers[k] = pattern}

\* a pattern without metacharacter stored in the generic map was resolved verbatim
C6_Verbatim ==
    /\ Resolved
    /\ last.bus = None
    /\ NoMeta(last.alias)
    /\ StoredFor(db.aliases, last.alias) # {}

C6_Case == C6_Verbatim /\ ~ HasBusPrefix(last.alias)

\* C6 (as stated): the verbatim query returns the module of every entry that stores it
C6_FixedPoint ==
    C6_Verbatim =>
        \A i \in StoredFor(db.aliases, last.alias) :
            last.exc = "" /\ last.val = db.aliases[i].module

(***************************************************************************)
(* C6 as amended.  Every pattern P without glob metacharacter (and without *)
(* plain-bus prefix) stored in the generic map, resolved verbatim with no  *)
(* bus hint, returns the module inserted first among the modules of the    *)
(* generic map with a record that glob-matches P: its own module M unless  *)
(* an earlier module matches P too.                                        *)
(***************************************************************************)
\* C6 (as amended): the verbatim query returns the first module with a matching record
C6_FixedPointFirst ==
    C6_Case =>
        /\ last.exc = ""
        /\ last.val = FirstModule(db.aliases, Matching(db.aliases, last.alias))
        /\ (\A i \in StoredFor(db.aliases, last.alias) :
               (\A j \in Matching(db.aliases, last.alias) : i <= j) => last.val = db.aliases[i].module)

\* the case is met with the pattern stored for a module that is not the one returned
C6_Witness ==
    /\ C6_Case
    /\ \E i \in StoredFor(db.aliases, last.alias) : last.val # db.aliases[i].module

(***************************************************************************)
(* C9.  resolve_of_alias strips an optional `of:` prefix and returns the   *)
(* module inserted first among the modules of the Of map with a record     *)
(* that glob-matches the query or, the query holding no comma and the      *)
(* pattern one, whose part after the last comma glob-matches it; it raises *)
(* UnknownAliasError when no record qualifies.                             *)
(***************************************************************************)
C9_Case == phase = "ready" /\ last.op = "resolve_of_alias"

\* C9: the first qualifying module of the Of map is returned, else UnknownAliasError
C9_OpenFirmware ==
    C9_Case =>
        IF OfQualifying(db.of, OfQuery(last.alias)) = {}
        THEN last.exc = "UnknownAliasError"
        ELSE /\ last.exc = ""
             /\ last.val = FirstModule(db.of, OfQualifying(db.of, OfQuery(last.alias)))

\* a prefixed query resolved through the part after the comma only
C9_Witness ==
    /\ C9_Case
    /\ StartsWith(last.alias, <<"o", "f", ":">>)
    /\ last.exc = ""
    /\ last.val # None
    /\ Matching(db.of, OfQuery(last.alias)) = {}

(***************************************************************************)
(* C10.  resolve_pci_alias never raises: it strips an optional `pci:`      *)
(* prefix and returns the module inserted first among the modules of the   *)
(* pci map with a record that glob-matches, and None when there is none.   *)
(***************************************************************************)
PciQuery(modalias) == Strip(IF StartsWith(modalias, <<"p", "c", "i", ":">>) THEN SubSeq(modalias, 5, Len(modalias)) ELSE modalias)

C10_Case == phase = "ready" /\ last.op = "resolve_pci_alias"

\* C10: no exception; the first matching module of the pci map, else None
C10_PciNeverFails ==
    C10_Case =>
        /\ last.exc = ""
        /\ IF Matching(db.bus[<<"p", "c", "i">>], PciQuery(last.alias)) = {}
           THEN last.val = None
           ELSE last.val = FirstModule(db.bus[<<"p", "c", "i">>], Matching(db.bus[<<"p", "c", "i">>], PciQuery(last.alias)))

\* a query that matches nothing in a pci map that holds records
C10_Witness ==
    /\ C10_Case
    /\ db.bus[<<"p", "c", "i">>] # <<>>
    /\ Matching(db.bus[<<"p", "c", "i">>], PciQuery(last.alias)) = {}
    /\ last.val = None

(***************************************************************************)
(* Construction on its own: every kind of record and line, well formed and *)
(* malformed.                                                              *)
(***************************************************************************)
LoadRecords ==
    { <<"b", "d", ".", "a", "l", "i", "a", "s", "=", "u", "s", "b", ":", "z", "z">>,
      <<"b", "d", ".", "a", "l", "i", "a", "s", "=", "c", "p", "u", ":", "t", "y", "p", "e", ":", "x", ",", "y", ":", "f", "e", "a", "t", "u", "r", "e">>,
      <<"b", "d", ".", "a", "l", "i", "a", "s", "=", "c", "p", "u", ":", "t", "y", "p", "e", ":", "*", ":", "t", "y", "p", "e", ":", "*">>,
      <<"b", "d", ".", "l", "i", "c", "e", "n", "s", "e", "=", "G", "P", "L">> }

LoadLines ==
    { <<"a", "l", "i", "a", "s", " ", "a", "b", " ", "m", "1">>,
      <<"a", "l", "i", "a", "s", " ", "u", "s", "b", ":", "a", "b", " ", "m", "1">>,
      <<"a", "l", "i", "a", "s", " ", "u", "s", "b", "*", ":", "a", "b", " ", "m", "5">>,
      <<"a", "l", "i", "a", "s", " ", "a", "c", "p", "i", "*", ":", "a", "b", " ", "m", "1">>,
      <<"a", "l", "i", "a", "s", " ", "c", "p", "u", ":", "t", "y", "p", "e", ":", "x", ",", "y", ":", "f", "e", "a", "t", "u", "r", "e", ":", "*", " ", "m", "2">>,
      <<"a", "l", "i", "a", "s", " ", "c", "p", "u", ":", "t", "y", "p", "e", ":", "*", ":", "f", "e", "a", "t", "u", "r", "e", ":", "*", " ", "m", "3">>,
      <<"a", "l", "i", "a", "s", " ", "c", "p", "u", ":", "t", "y", "p", "e", ":", "*", ":", "f", "e", "a", "t", "u", "r", "e", ":", "f", " ", "m", "3">>,
      <<"a", "l", "i", "a", "s", " ", "c", "p", "u", ":", "t", "y", "p", "e", ":", "x", ",", "y", ":", "f", "e", "a", "t", "u", "r", "e", " ", "m", "2">>,
      <<"a", "l", "i", "a", "s", " ", "c", "p", "u", ":", "t", "y", "p", "e", ":", "*", ":", "t", "y", "p", "e", ":", "*", " ", "m", "2">>,
      <<"a", "l", "i", "a", "s", " ", "o", "f", ":", "N", "*", "T", "*", "C", "a", "b", "C", "*", " ", "m", "4">>,
      <<"a", "l", "i", "a", "s", " ", "o", "f", ":", "a", "b", " ", "m", "4">>,
      <<"a", "l", "i", "a", "s", " ", "o", "f", ":", "N", "*", "T", "*", "C", "*", " ", "m", "3">>,
      <<"a", "l", "i", "a", "s", " ", "d", "m", "i", ":", "a", ":", ":", "b", " ", "m", "1">>,
      <<"a", "l", "i", "a", "s", " ", "v", "i", "r", "t", "i", "o", ":", "d", "1", "v", "2", " ", "m", "2">>,
      <<"a", "l", "i", "a", "s", " ", "h", "i", "d", ":", "x", " ", "m", "1">>,
      <<"a", "l", "i", "a", "s", " ", "z", "z", "z", ":", "x", " ", "m", "1">>,
      <<"#", " ", "c", "o", "m", "m", "e", "n", "t">> }

NextLoad ==
    \/ \E raw \in LoadRecords : ReadBuiltinRecord(raw)
    \/ EndBuiltin
    \/ \E line \in LoadLines : ReadAliasLine(line)
    \/ EndAlias

SpecLoad == Init /\ [][NextLoad]_vars

(***************************************************************************)
(* C2.  A malformed CPU alias (an odd number of `:`-separated tokens, or a *)
(* repeated key) met in either load pass is skipped and construction goes  *)
(* on.  The code lets the ValueError of get_alias_keys leave __init__, so  *)
(* this fails.                                                             *)
(***************************************************************************)
Loading == last.op \in {"get_builtin_module_info", "get_module_aliases"}

\* the text after `cpu:` of the alias a record or line declares, given where it starts
CpuRestFrom(raw, start) ==
    SubSeq(raw, start, IF Find(SubSeq(raw, start, Len(raw)), " ") = 0 THEN Len(raw)
                       ELSE start + Find(SubSeq(raw, start, Len(raw)), " ") - 2)

IsCpuAlias(raw) ==
    \/ last.op = "get_module_aliases" /\ StartsWith(raw, <<"a", "l", "i", "a", "s", " ", "c", "p", "u", ":">>)
    \/ last.op = "get_builtin_module_info" /\ Contains(raw, ".")
          /\ StartsWith(SubSeq(raw, Find(raw, ".") + 1, Len(raw)), <<"a", "l", "i", "a", "s", "=", "c", "p", "u", ":">>)

CpuRest(raw) ==
    IF last.op = "get_module_aliases" THEN CpuRestFrom(raw, 11)
    ELSE CpuRestFrom(raw, Find(raw, ".") + 11)

MalformedTokens(tokens) ==
    \/ Len(tokens) % 2 # 0
    \/ \E i, j \in 1..Len(tokens) : i % 2 = 1 /\ j % 2 = 1 /\ i < j /\ Strip(tokens[i]) = Strip(tokens[j])

C2_Case == Loading /\ IsCpuAlias(last.alias) /\ MalformedTokens(Split(CpuRest(last.alias), ":"))

\* C2: reading a malformed CPU alias raises nothing and construction does not fail
C2_MalformedCpuSkipped == C2_Case => last.exc = "" /\ phase # "failed"

(***************************************************************************)
(* The batch detectors on their own.                                       *)
(***************************************************************************)
DetectLines ==
    { <<"a", "l", "i", "a", "s", " ", "d", "m", "i", ":", "a", ":", "*", ":", "b", " ", "m", "1">>,
      <<"a", "l", "i", "a", "s", " ", "d", "m", "i", "*", ":", "a", ":", "b", " ", "m", "2">>,
      <<"a", "l", "i", "a", "s", " ", "d", "m", "i", ":", "a", " ", "m", "3">>,
      <<"a", "l", "i", "a", "s", " ", "d", "m", "i", ":", "a", ":", "*", " ", "m", "4">>,
      <<"a", "l", "i", "a", "s", " ", "a", "c", "p", "i", ":", "a", "b", " ", "m", "1">>,
      <<"a", "l", "i", "a", "s", " ", "p", "c", "i", ":", "a", "*", " ", "m", "2">> }

DetectTexts == { <<"a", "c", "p", "i", ":", "a", "b">>, <<"p", "c", "i", ":", "a", "b">>, <<" ", "z", "z">> }

DetectDmiStrings == { None, <<"d", "m", "i", ":", "a">>, <<"d", "m", "i", ":", "a", ":", "x", ":", "b">>, <<"a", ":", "b">>, <<"d", "m", "i", ":", "a", ":", ":", "b", ":">> }

NextDetect ==
    \/ EndBuiltin
    \/ \E line \in DetectLines : ReadAliasLine(line)
    \/ EndAlias
    \/ \E exists \in BOOLEAN, texts \in SUBSET DetectTexts : DetectAcpi(exists, texts)
    \/ \E exists \in BOOLEAN, texts \in SUBSET DetectTexts : DetectPci(exists, texts)
    \/ \E given \in DetectDmiStrings, hasFile \in BOOLEAN : DetectDmi(given, hasFile, <<"d", "m", "i", ":", "a", ":", "x">>)

SpecDetect == Init /\ [][NextDetect]_vars

(***************************************************************************)
(* C4.  detect_dmi_kmods returns exactly the modules with a Dmi record R   *)
(* such that the target has a field at every index of R and that field     *)
(* glob-matches R's; a record longer than the target never matches and the *)
(* call returns normally.  The code indexes the target past its end when   *)
(* the record's field there is not `*` (IndexError), so this fails.        *)
(***************************************************************************)
TargetFields(dmi_str) ==
    LET s == Strip(IF StartsWith(dmi_str, <<"d", "m", "i", ":">>) THEN SubSeq(dmi_str, 5, Len(dmi_str)) ELSE dmi_str)
    IN  DropEmpty(Split(s, ":"))

DmiRecordMatches(record, target) ==
    \A i \in 1..Len(record) : i <= Len(target) /\ fnmatchcase(target[i], record[i])

C4_Case == phase = "ready" /\ last.op = "detect_dmi_kmods" /\ last.exc # "FileNotFoundError"

\* C4: the call returns exactly the modules with a record matched field by field
C4_DetectDmi ==
    C4_Case =>
        /\ last.exc = ""
        /\ last.mods = {db.dmi[i].module : i \in {j \in 1..Len(db.dmi) :
                          \E k \in 1..Len(db.dmi[j].matchers) :
                              DmiRecordMatches(db.dmi[j].matchers[k], TargetFields(last.alias))}}

(***************************************************************************)
(* get_blkdev_kmods on its own: every shape of directory level.            *)
(***************************************************************************)
BlkRecords == { <<"b", "d", ".", "a", "l", "i", "a", "s", "=", "u", "s", "b", ":", "z", "z">> }

BlkLines == { <<"a", "l", "i", "a", "s", " ", "a", "b", " ", "m", "1">>, <<"a", "l", "i", "a", "s", " ", "n", "v", " ", "m", "2">> }

BlkLevels ==
    {[hasDriver |-> FALSE, driver |-> None, hasModule |-> FALSE, module |-> None,
      hasModalias |-> t # None, modalias |-> t] : t \in {None, <<"a", "b">>, <<"u", "s", "b", ":", "z", "z">>, <<"q", "q">>}}
    \cup
    {[hasDriver |-> TRUE, driver |-> d, hasModule |-> m # None, module |-> m,
      hasModalias |-> t # None, modalias |-> t] :
        d \in {bd, nv, <<"p", "c", "i", "e", "p", "o", "r", "t">>}, m \in {None, m3}, t \in {None, <<"a", "b">>, <<"u", "s", "b", ":", "z", "z">>, <<"q", "q">>}}

NextBlk ==
    \/ \E raw \in BlkRecords : ReadBuiltinRecord(raw)
    \/ EndBuiltin
    \/ \E line \in BlkLines : ReadAliasLine(line)
    \/ EndAlias
    \/ \E exists \in BOOLEAN : BlkdevStart(exists)
    \/ \E lvl \in BlkLevels, isRoot \in BOOLEAN : BlkdevLevel(lvl, isRoot)

SpecBlk == Init /\ [][NextBlk]_vars

(***************************************************************************)
(* C3.  Once the device exists get_blkdev_kmods never fails, whatever the  *)
(* levels hold: it walks to the root and returns the accumulated set.  The *)
(* code calls resolve_module_alias(None) at a level without driver symlink *)
(* whose modalias resolves to nothing (AttributeError), so this fails.     *)
(***************************************************************************)
\* the call went past the test of the device's existence and has ended
C3_Case == phase = "ready" /\ last.op = "get_blkdev_kmods" /\ walk.depth > 0 /\ ~ walk.active

\* C3: a walk that started ends by returning the accumulated set
C3_WalkNeverFails == C3_Case => last.exc = "" /\ last.mods = walk.modules

(***************************************************************************)
(* C8.  Builtin suppression: an iteration at a level whose driver symlink  *)
(* names a driver in self.builtin or in _BUILTIN_NO_KMOD adds to the       *)
(* result exactly the module the level's modalias resolves to, if any: the *)
(* target of the driver's module symlink is not added.                     *)
(***************************************************************************)
Suppressed(lvl) ==
    lvl.hasDriver /\ (lvl.driver \in db.builtin \/ lvl.driver = <<"p", "c", "i", "e", "p", "o", "r", "t">>)

ResolvedFrom(lvl) ==
    IF lvl.hasModalias /\ resolve_module_alias(db, Strip(lvl.modalias), None).exc = ""
    THEN {resolve_module_alias(db, Strip(lvl.modalias), None).val}
    ELSE {}

\* C8: such an iteration adds what the level's modalias resolves to, and nothing else
C8_BuiltinSuppression ==
    [][(walk.active /\ walk'.depth = walk.depth + 1 /\ Suppressed(walk'.level))
          => walk'.modules = walk.modules \cup ResolvedFrom(walk'.level)]_vars

\* a suppressed level with a module symlink, whose modalias resolved
C8_Witness ==
    /\ walk.depth > 0
    /\ Suppressed(walk.level)
    /\ walk.level.hasModule
    /\ walk.level.module \notin walk.modules
    /\ walk.modaliasAdded # {}
    /\ walk.modaliasAdded \subseteq walk.modules

(***************************************************************************)
(* C7.  No query changes the store: once the store is constructed, every   *)
(* step (a call of any resolver or detector, or an iteration of            *)
(* get_blkdev_kmods, returning or raising) leaves every map and the        *)
(* builtin set as they were.                                               *)
(***************************************************************************)
\* C7: no step taken on the constructed store changes it
C7_QueriesReadOnly == [][phase = "ready" => db' = db]_vars

\* a query that raised on a store that holds records
C7_Witness ==
    /\ phase = "ready"
    /\ last.op \in {"resolve_module_alias", "resolve_of_alias", "get_blkdev_kmods"}
    /\ last.exc # ""
    /\ db.aliases # <<>>


(***************************************************************************)
(* What a line of modules.alias declares, read from the line's text:       *)
(* `alias <bus>:<rest> <module>`.                                          *)
(***************************************************************************)
LineBody(line) == Strip(SubSeq(line, 7, Len(line)))
LineSpec(line) == Split1(LineBody(line), " ")[1]
LineModule(line) == Split1(LineBody(line), " ")[2]
LineBus(line) == Split1(LineSpec(line), ":")[1]
LineRest(line) == Split1(LineSpec(line), ":")[2]

\* the line is an alias line with a module and a bus part
IsBusLine(line) ==
    /\ StartsWith(line, <<"a", "l", "i", "a", "s", " ">>)
    /\ Len(Split1(LineBody(line), " ")) = 2
    /\ Len(Split1(LineSpec(line), ":")) = 2

\* the step reads line `line` of modules.alias and construction goes on
ReadsLine(line) ==
    /\ phase = "alias"
    /\ nread' = nread + 1
    /\ last'.op = "get_module_aliases"
    /\ last'.alias = line
    /\ last'.exc = ""

(***************************************************************************)
(* C11.  A line whose bus, as written or with its `*` stripped, is a plain *)
(* bus has its rest appended to that bus's own map for the line's module,  *)
(* and the generic list is left as it was.  The code tests the bus as      *)
(* written before it appends (process_simple_alias), so `usb*`, `acpi*`    *)
(* and `pci*` records go to the generic list and this fails.               *)
(***************************************************************************)
C11_Case(line) == IsBusLine(line) /\ RemoveChar(LineBus(line), "*") \in PlainBusSet

\* C11: a step that reads such a line appends its rest to the plain bus's map only
C11_PlainBusDispatch ==
    [][\A line \in LoadLines :
          ReadsLine(line) /\ C11_Case(line) =>
             /\ db'.bus[RemoveChar(LineBus(line), "*")]
                  = DictAppend(db.bus[RemoveChar(LineBus(line), "*")], LineModule(line), LineRest(line))
             /\ db'.aliases = db.aliases]_vars

(***************************************************************************)
(* C12.  An `of:` alias whose rest starts with `N*T*C` stores the rest     *)
(* with that prefix removed first and then a `C*` suffix of the remainder  *)
(* replaced by `*`; any other rest stores nothing.  The code replaces the  *)
(* suffix of the whole rest before it removes the prefix, so for the rest  *)
(* `N*T*C*`, where the two overlap, it stores `N*T**` and this fails.      *)
(***************************************************************************)
OfPrefix == <<"N", "*", "T", "*", "C">>

\* the pattern the claim has stored for a rest that starts with the prefix
OfStored(rest) ==
    LET remainder == SubSeq(rest, Len(OfPrefix) + 1, Len(rest))
    IN  IF EndsWith(remainder, <<"C", "*">>)
        THEN SubSeq(remainder, 1, Len(remainder) - 2) \o <<"*">>
        ELSE remainder

C12_Case(line) == IsBusLine(line) /\ LineBus(line) = <<"o", "f">>

\* C12: a step that reads an `of:` line appends the pattern so formed, or nothing
C12_OfParsing ==
    [][\A line \in LoadLines :
          ReadsLine(line) /\ C12_Case(line) =>
             IF StartsWith(LineRest(line), OfPrefix)
             THEN db'.of = DictAppend(db.of, LineModule(line), OfStored(LineRest(line)))
             ELSE db'.of = db.of]_vars

(***************************************************************************)
(* C13.  A well-formed `cpu:` alias with type `*` and feature `*` is kept  *)
(* in the generic list under its full spec, `cpu:` included, and adds      *)
(* nothing to the cpu map; any other well-formed one adds one record       *)
(* {arch, info, features} to the cpu map and nothing to the generic list.  *)
(* The code appends the text after `cpu:` to the generic list              *)
(* (_process_cpu_alias), so the first half fails.                          *)
(***************************************************************************)
\* the value that the `:`-separated tokens give to a key
TokenValue(tokens, key) ==
    Strip(tokens[(CHOOSE i \in 1..Len(tokens) : i % 2 = 1 /\ Strip(tokens[i]) = key) + 1])

HasToken(tokens, key) == \E i \in 1..Len(tokens) : i % 2 = 1 /\ Strip(tokens[i]) = key

CpuTokens(line) == Split(LineRest(line), ":")
CpuType(line) == TokenValue(CpuTokens(line), <<"t", "y", "p", "e">>)
CpuFeature(line) == TokenValue(CpuTokens(line), <<"f", "e", "a", "t", "u", "r", "e">>)

\* key/value pairs with a type and a feature, the type being `*` or `arch,info`
C13_Case(line) ==
    /\ IsBusLine(line)
    /\ LineBus(line) = <<"c", "p", "u">>
    /\ ~ MalformedTokens(CpuTokens(line))
    /\ HasToken(CpuTokens(line), <<"t", "y", "p", "e">>)
    /\ HasToken(CpuTokens(line), <<"f", "e", "a", "t", "u", "r", "e">>)
    /\ (CpuType(line) = <<"*">> \/ Contains(CpuType(line), ","))

\* the record the claim has stored in the cpu map
CpuRecord(line) ==
    IF CpuType(line) = <<"*">>
    THEN [arch |-> <<"*">>, info |-> <<"*">>, features |-> CpuFeature(line)]
    ELSE [arch |-> SubSeq(CpuType(line), 1, Find(CpuType(line), ",") - 1),
          info |-> SubSeq(CpuType(line), Find(CpuType(line), ",") + 1, Len(CpuType(line))),
          features |-> CpuFeature(line)]

\* C13: a step that reads a well-formed cpu line stores the full spec or one Cpu record
C13_CpuParsing ==
    [][\A line \in LoadLines :
          ReadsLine(line) /\ C13_Case(line) =>
             IF CpuType(line) = <<"*">> /\ CpuFeature(line) = <<"*">>
             THEN /\ db'.aliases = DictAppend(db.aliases, LineModule(line), LineSpec(line))
                  /\ db'.cpu = db.cpu
             ELSE /\ db'.cpu = DictAppend(db.cpu, LineModule(line), CpuRecord(line))
                  /\ db'.aliases = db.aliases]_vars
====
